---- MODULE Spec2Model ----
(***************************************************************************)
(* own-discord-exporter (src/main.ts, the current program: lines 231-448). *)
(*                                                                         *)
(* One run of the exporter: parseConfig, client login, the ClientReady     *)
(* handler (fetchTextChannel, backfill, catch, finally client.destroy()),  *)
(* and inside backfill the page loop with writeMessages and writeJson.     *)
(*                                                                         *)
(* Time is measured in ticks; a local calendar day is DayLen ticks long    *)
(* and the local time zone is TzOffset ticks ahead of UTC.  A message is   *)
(* named by its id, 1..Len(hist); hist[id] is its createdTimestamp.        *)
(* Discord ids are snowflakes, so createdTimestamp never decreases with    *)
(* the id, and several ids may share one timestamp.                        *)
(*                                                                         *)
(* Spec and FairSpec are one run; SpecRerun lets a complete run be         *)
(* followed by a second one on the same output directory; SpecWriter       *)
(* applies writeJson and writeMessages alone to any input; SpecRace puts   *)
(* two runs inside writeJson on one directory; SpecSanitize applies        *)
(* sanitizeChannelName to any name.                                        *)
(***************************************************************************)
EXTENDS Integers, Sequences, FiniteSets, TLC

\* ------------------------------------------------------------- bounds
MaxTs == 3
DayLen == 2
MaxBatch == 2
MaxNameLen == 4

\* ----------------------------------------------------- program constants
Limit == 100
Undefined == 0
NaD == 0 - 1

HalfPage == Limit \div 2
TzOffset == DayLen - 1
Ticks == 0 .. (MaxTs - 1)
Counts == {0, 1, HalfPage, Limit}
DateArgs == (0 .. MaxTs) \cup {NaD}

VARIABLES
  argv,         \* the command line: --start, --end, --redactContent
  cfg,          \* Config built by parseConfig
  hist,         \* the channel's history: hist[id] = createdTimestamp
  pc,           \* the position of the run
  before,       \* backfill: the cursor
  total,        \* backfill: messages scanned
  msgs,         \* backfill: the current page, as delivered (newest first)
  batchIn,      \* writeMessages: its msgs argument, as passed
  pending,      \* writeMessages: the groups of byDate not yet written
  fs,           \* the output directory: directories and partition files
  fetchCount,   \* number of ch.messages.fetch calls issued
  calls,        \* the writeJson invocations of the current call
  outcome,      \* how backfill ended
  errorLogged,  \* console.error(e) ran
  destroyed,    \* client.destroy() ran
  exitStatus,   \* the process' exit status, once exited
  writers,      \* concurrent runs, each inside one writeJson call
  done,         \* the configurations of the complete runs made before
  channelName,  \* sanitizeChannelName: its argument
  sanitizedName \* sanitizeChannelName: its result

vars == <<argv, cfg, hist, pc, before, total, msgs, batchIn, pending, fs,
          fetchCount, calls, outcome, errorLogged, destroyed, exitStatus,
          writers, done, channelName, sanitizedName>>

\* ------------------------------------------------------------ helpers

Min(S) == CHOOSE x \in S : \A y \in S : x <= y

\* msg.createdTimestamp
Ts(m) == hist[m]

\* mutant: the UTC date, as utcDate of the program's earlier version
UtcDate(t) == t \div DayLen

\* localDate: the calendar date of an instant in the local time zone
LocalDate(t) == (t + TzOffset) \div DayLen

Dates == {LocalDate(t) : t \in Ticks}

\* parseDate: new Date(s), throwing on an invalid date
ParseDateThrows(s) == s = NaD

\* toRecord: the fields the export relies on
Null == [tag |-> "null", val |-> 0]
Text(m) == [tag |-> "string", val |-> m]
\* mutant: redaction blanks the creation time as well
ToRecordRedactsTime(m, c) ==
  [message_id |-> m,
   created_at |-> IF c.redactContent THEN 0 ELSE Ts(m),
   content    |-> IF c.redactContent THEN Null ELSE Text(m)]

ToRecord(m, c) ==
  [message_id |-> m,
   created_at |-> Ts(m),
   content    |-> IF c.redactContent THEN Null ELSE Text(m)]

\* ------------------------------------------------ sanitizeChannelName
\* A name is a sequence of characters.  The alphabet has two of the
\* characters of the class [<>:"/\|?*], two white-space characters, the dot,
\* the hyphen, an upper-case letter and its lower-case letter.

Forbidden == {"<", "/"}
Whitespace == {" ", "\t"}
Alphabet == Forbidden \cup Whitespace \cup {".", "-", "A", "a"}

\* .replace(/[<>:"/\\|?*]/g, "-")
ReplaceForbidden(s) ==
  [i \in DOMAIN s |-> IF s[i] \in Forbidden THEN "-" ELSE s[i]]

RECURSIVE DropWhile(_, _)
DropWhile(s, C) ==
  IF s # <<>> /\ Head(s) \in C THEN DropWhile(Tail(s), C) ELSE s

\* .replace(/\s+/g, "-"): each maximal run of white space becomes one hyphen
RECURSIVE CollapseWhitespace(_)
CollapseWhitespace(s) ==
  IF s = <<>> THEN <<>>
  ELSE IF Head(s) \in Whitespace
       THEN <<"-">> \o CollapseWhitespace(DropWhile(s, Whitespace))
       ELSE <<Head(s)>> \o CollapseWhitespace(Tail(s))

\* mutant: .replace(/^\./, ""), one leading dot only
StripOneLeadingDot(s) == IF s # <<>> /\ Head(s) = "." THEN Tail(s) ELSE s

\* .replace(/^\.+/, "")
StripLeadingDots(s) == DropWhile(s, {"."})

\* .toLowerCase()
ToLowerCase(s) == [i \in DOMAIN s |-> IF s[i] = "A" THEN "a" ELSE s[i]]

SanitizeChannelName(name) ==
  ToLowerCase(StripLeadingDots(CollapseWhitespace(ReplaceForbidden(name))))

\* ------------------------------------------------------------ file I/O

Absent == [kind |-> "absent", items |-> <<>>]
Garbage == [kind |-> "invalid", items |-> <<>>]
ObjectJson == [kind |-> "object", items |-> <<>>]

\* JSON.stringify of a record list: one serialized entry per record
JsonStringify(recs) ==
  [kind |-> "array",
   items |-> [i \in DOMAIN recs |->
                <<recs[i].message_id, recs[i].created_at, recs[i].content>>]]

\* JSON.parse of an array file
JsonParse(f) ==
  [i \in DOMAIN f.items |->
     [message_id |-> f.items[i][1],
      created_at |-> f.items[i][2],
      content    |-> f.items[i][3]]]

\* try { existing = JSON.parse(await Bun.file(path).text()) } catch {}
ParseThrows(f) == f.kind \in {"absent", "invalid"}
ReadExisting(f) == IF ParseThrows(f) THEN <<>> ELSE JsonParse(f)

\* [...existing, ...records] throws when existing is not iterable
SpreadThrows(f) == f.kind = "object"

Mkdir(f, path) == [f EXCEPT !.dirs = @ \cup {path}]

\* mutant: the new records put before the existing ones
WriteJsonPrepends(f, path, records) ==
  IF records = <<>> THEN f
  ELSE LET d == Mkdir(f, path)
           existing == ReadExisting(d.files[path])
       IN [d EXCEPT !.files[path] = JsonStringify(records \o existing)]

\* mutant: no early return on an empty record list
WriteJsonNoGuard(f, path, records) ==
  LET d == Mkdir(f, path)
      existing == ReadExisting(d.files[path])
  IN [d EXCEPT !.files[path] = JsonStringify(existing \o records)]

\* mutant: records whose message id the file already holds are left out
WriteJsonDedup(f, path, records) ==
  IF records = <<>> THEN f
  ELSE LET d == Mkdir(f, path)
           existing == ReadExisting(d.files[path])
           fresh == SelectSeq(records, LAMBDA r :
                      \A i \in DOMAIN existing :
                        existing[i].message_id # r.message_id)
       IN [d EXCEPT !.files[path] = JsonStringify(existing \o fresh)]

\* writeJson, when no step of it fails
WriteJson(f, path, records) ==
  IF records = <<>> THEN f
  ELSE LET d == Mkdir(f, path)
           existing == ReadExisting(d.files[path])
       IN [d EXCEPT !.files[path] = JsonStringify(existing \o records)]

\* ------------------------------------------------------ writeMessages

RECURSIVE SortKeys(_, _)
SortKeys(ms, keys) ==
  IF keys = {} THEN <<>>
  ELSE LET k == Min(keys)
       IN SelectSeq(ms, LAMBDA m : Ts(m) = k) \o SortKeys(ms, keys \ {k})

\* mutant: the messages left in the order of delivery
Unsorted(ms) == ms

\* msgs.sort((a, b) => a.createdTimestamp - b.createdTimestamp): stable
SortByCreated(ms) == SortKeys(ms, {Ts(ms[i]) : i \in DOMAIN ms})

\* Map.groupBy(msgs, localDate): groups in order of first appearance
RECURSIVE GroupByDate(_)
GroupByDate(ms) ==
  IF ms = <<>> THEN <<>>
  ELSE LET d == LocalDate(Ts(Head(ms)))
       IN <<[dt |-> d,
             batch |-> SelectSeq(ms, LAMBDA m : LocalDate(Ts(m)) = d)]>>
          \o GroupByDate(SelectSeq(ms, LAMBDA m : LocalDate(Ts(m)) # d))

\* writeMessages up to its loop: the groups to write
ByDate(ms) == IF ms = <<>> THEN <<>> ELSE GroupByDate(SortByCreated(ms))

MapRecords(batch, c) == [i \in DOMAIN batch |-> ToRecord(batch[i], c)]

\* ------------------------------------------------------------ backfill

\* mutant: the cursor taken as inclusive
FetchPageInclusive(h, b) ==
  LET hi == IF b = Undefined THEN Len(h) ELSE b
      n  == IF hi < Limit THEN hi ELSE Limit
  IN [k \in 1 .. n |-> hi - k + 1]

\* ch.messages.fetch({ limit: 100, before }): the newest messages with an
\* id below the cursor, at most Limit of them, newest first
FetchPage(h, b) ==
  LET hi == IF b = Undefined THEN Len(h) ELSE b - 1
      n  == IF hi < Limit THEN hi ELSE Limit
  IN [k \in 1 .. n |-> hi - k + 1]

\* mutant: the window's end taken as inclusive
InRangeEndInclusive(ms, c) ==
  SelectSeq(ms, LAMBDA m : Ts(m) >= c.start /\ Ts(m) <= c.end)

\* msgs.filter(start <= createdTimestamp < end)
InRange(ms, c) ==
  SelectSeq(ms, LAMBDA m : Ts(m) >= c.start /\ Ts(m) < c.end)

\* msgs.reduce((a, b) => a.createdTimestamp < b.createdTimestamp ? a : b)
\* The callback is associative (the smaller timestamp, the right operand on
\* a tie), so the left fold is computed here by halving the range; each half
\* is bound to its value before the callback is applied to the two.

\* mutant: the callback written with <=, the left operand on a tie
PickLeftOnTie(a, b) == IF Ts(a) <= Ts(b) THEN a ELSE b

Pick(a, b) == IF Ts(a) < Ts(b) THEN a ELSE b

RECURSIVE Reduce(_, _, _)
Reduce(ms, lo, hi) ==
  IF lo = hi THEN ms[lo]
  ELSE LET mid == (lo + hi) \div 2
       IN CHOOSE r \in {Pick(a, b) : a \in {Reduce(ms, lo, mid)},
                                     b \in {Reduce(ms, mid + 1, hi)}} : TRUE

Oldest(ms) == Reduce(ms, 1, Len(ms))

\* mutant: a page whose oldest message is created at start ends the loop
WindowSatisfiedAtStart(oldest, c) == Ts(oldest) <= c.start

\* mutant: the loop runs on to the end of the history
WindowNeverSatisfied(oldest, c) == FALSE

\* if (oldest.createdTimestamp < cfg.start.getTime()) break
WindowSatisfied(oldest, c) == Ts(oldest) < c.start

\* ------------------------------------------------------------- initial

RECURSIVE BuildHist(_, _)
BuildHist(cnt, t) ==
  IF t = MaxTs THEN <<>>
  ELSE [i \in 1 .. cnt[t] |-> t] \o BuildHist(cnt, t + 1)

EmptyFs == [dirs |-> {}, files |-> [d \in Dates |-> Absent]]
NoCfg == [start |-> NaD, end |-> NaD, redactContent |-> FALSE]

\* the runs that may write concurrently, and a run outside writeJson
Runs == {"A", "B"}
Outside == [pc |-> "outside", path |-> 0, records |-> <<>>, found |-> Absent,
            overwritten |-> FALSE]

Init ==
  /\ argv \in [start : DateArgs, end : DateArgs, redactContent : BOOLEAN]
  /\ \E cnt \in [Ticks -> Counts] : hist = BuildHist(cnt, 0)
  /\ cfg = NoCfg
  /\ pc = "start"
  /\ before = Undefined
  /\ total = 0
  /\ msgs = <<>>
  /\ batchIn = <<>>
  /\ pending = <<>>
  /\ fs = EmptyFs
  /\ fetchCount = 0
  /\ calls = <<>>
  /\ outcome = "none"
  /\ errorLogged = FALSE
  /\ destroyed = FALSE
  /\ exitStatus = NaD
  /\ writers = [w \in Runs |-> Outside]
  /\ done = <<>>
  /\ channelName = <<>>
  /\ sanitizedName = <<>>

\* -------------------------------------------------------------- main

\* parseConfig; a throw leaves main() rejected and uncaught
ParseConfig ==
  /\ pc = "start"
  /\ IF ParseDateThrows(argv.start) \/ ParseDateThrows(argv.end)
     THEN /\ pc' = "exited"
          /\ exitStatus' = 1
          /\ cfg' = cfg
     ELSE /\ pc' = "login"
          /\ cfg' = [start |-> argv.start, end |-> argv.end,
                     redactContent |-> argv.redactContent]
          /\ exitStatus' = exitStatus
  /\ UNCHANGED <<channelName, sanitizedName, done, writers,
                 argv, hist, before, total, msgs, batchIn, pending, fs,
                 fetchCount, calls, outcome,
                 errorLogged, destroyed>>

\* new Client, client.once(ClientReady, ...), await client.login(token)
Login ==
  /\ pc = "login"
  /\ \/ pc' = "ready" /\ exitStatus' = exitStatus
     \/ pc' = "exited" /\ exitStatus' = 1
  /\ UNCHANGED <<channelName, sanitizedName, done, writers,
                 argv, cfg, hist, before, total, msgs, batchIn, pending, fs,
                 fetchCount, calls, outcome,
                 errorLogged, destroyed>>

\* the handler's try: fetchTextChannel, then backfill's first lines
FetchTextChannel ==
  /\ pc = "ready"
  /\ \/ /\ pc' = "fetch"
        /\ before' = Undefined
        /\ total' = 0
        /\ outcome' = outcome
     \/ /\ pc' = "catch"
        /\ outcome' = "error"
        /\ UNCHANGED <<before, total>>
  /\ UNCHANGED <<channelName, sanitizedName, done, writers,
                 argv, cfg, hist, msgs, batchIn, pending, fs, fetchCount,
                 calls, errorLogged, destroyed,
                 exitStatus>>

\* one ch.messages.fetch, the filter, and writeMessages up to its loop
Fetch ==
  /\ pc = "fetch"
  /\ fetchCount' = fetchCount + 1
  /\ \/ /\ pc' = "catch"
        /\ outcome' = "error"
        /\ UNCHANGED <<msgs, total, batchIn, pending, calls>>
     \/ LET batch == FetchPage(hist, before) IN
        IF batch = <<>>
        THEN /\ pc' = "finally"
             /\ outcome' = "exhausted"
             /\ UNCHANGED <<msgs, total, batchIn, pending, calls>>
        ELSE LET inRange == InRange(batch, cfg) IN
             /\ msgs' = batch
             /\ total' = total + Len(batch)
             /\ batchIn' = inRange
             /\ pending' = ByDate(inRange)
             /\ calls' = <<>>
             /\ pc' = "write"
             /\ outcome' = outcome
  /\ UNCHANGED <<channelName, sanitizedName, done, writers,
                 argv, cfg, hist, before, fs, errorLogged, destroyed, exitStatus>>

\* writeJson(path, records), called where the run is at pc; it returns to
\* pcReturn or throws to pcThrow.  A call is logged with io = TRUE when one
\* of its file-system operations (mkdir, Bun.write) failed.
WriteJsonCall(path, records, pcReturn, pcThrow) ==
  LET call(ok, io) == [path |-> path, records |-> records, ok |-> ok, io |-> io]
      threw(io) == pc' = pcThrow /\ calls' = Append(calls, call(FALSE, io))
      returned == pc' = pcReturn /\ calls' = Append(calls, call(TRUE, FALSE))
  IN \/ \* if (!records.length) return
        /\ records = <<>>
        /\ fs' = WriteJson(fs, path, records)
        /\ returned
     \/ \* mkdir throws
        /\ records # <<>>
        /\ fs' = fs
        /\ threw(TRUE)
     \/ \* [...existing, ...records] throws: existing is not iterable
        /\ records # <<>>
        /\ SpreadThrows(fs.files[path])
        /\ fs' = Mkdir(fs, path)
        /\ threw(FALSE)
     \/ \* Bun.write throws, the file as it was
        /\ records # <<>>
        /\ ~SpreadThrows(fs.files[path])
        /\ fs' = Mkdir(fs, path)
        /\ threw(TRUE)
     \/ \* Bun.write throws, the file cut short
        /\ records # <<>>
        /\ ~SpreadThrows(fs.files[path])
        /\ fs' = [Mkdir(fs, path) EXCEPT !.files[path] = Garbage]
        /\ threw(TRUE)
     \/ \* writeJson returns
        /\ records # <<>>
        /\ ~SpreadThrows(fs.files[path])
        /\ fs' = WriteJson(fs, path, records)
        /\ returned

\* one turn of writeMessages' loop: batch.map(toRecord), then writeJson
WriteNext ==
  /\ pc = "write"
  /\ pending # <<>>
  /\ LET g == Head(pending) IN
     \/ \* toRecord throws
        /\ pc' = "catch"
        /\ UNCHANGED <<fs, calls, pending>>
     \/ /\ WriteJsonCall(g.dt, MapRecords(g.batch, cfg), "write", "catch")
        /\ pending' = IF pc' = "write" THEN Tail(pending) ELSE pending
  /\ outcome' = IF pc' = "catch" THEN "error" ELSE outcome
  /\ UNCHANGED <<channelName, sanitizedName, done, writers,
                 argv, cfg, hist, before, total, msgs, batchIn, fetchCount,
                 errorLogged, destroyed, exitStatus>>

\* after writeMessages: the oldest message of the page decides
CheckOldest ==
  /\ pc = "write"
  /\ pending = <<>>
  /\ LET oldest == Oldest(msgs) IN
     IF WindowSatisfied(oldest, cfg)
     THEN /\ pc' = "finally"
          /\ outcome' = "window"
          /\ before' = before
     ELSE /\ pc' = "fetch"
          /\ before' = oldest
          /\ outcome' = outcome
  /\ UNCHANGED <<channelName, sanitizedName, done, writers,
                 argv, cfg, hist, total, msgs, batchIn, pending, fs,
                 fetchCount, calls, errorLogged,
                 destroyed, exitStatus>>

\* mutant: the error path leaves the handler without its finally block
CatchSkipsFinally ==
  /\ pc = "catch"
  /\ errorLogged' = TRUE
  /\ pc' = "drain"
  /\ UNCHANGED <<channelName, sanitizedName, done, writers,
                 argv, cfg, hist, before, total, msgs, batchIn, pending, fs,
                 fetchCount, calls, outcome, destroyed,
                 exitStatus>>

\* catch (e) { console.error(e) }
Catch ==
  /\ pc = "catch"
  /\ errorLogged' = TRUE
  /\ pc' = "finally"
  /\ UNCHANGED <<channelName, sanitizedName, done, writers,
                 argv, cfg, hist, before, total, msgs, batchIn, pending, fs,
                 fetchCount, calls, outcome, destroyed,
                 exitStatus>>

\* finally { await client.destroy() }
Destroy ==
  /\ pc = "finally"
  /\ destroyed' = TRUE
  /\ pc' = "drain"
  /\ UNCHANGED <<channelName, sanitizedName, done, writers,
                 argv, cfg, hist, before, total, msgs, batchIn, pending, fs,
                 fetchCount, calls, outcome,
                 errorLogged, exitStatus>>

\* mutant: a failed traversal sets a failure exit status
ExitFailsOnError ==
  /\ pc = "drain"
  /\ exitStatus' = IF outcome = "error" THEN 1 ELSE 0
  /\ pc' = "exited"
  /\ UNCHANGED <<channelName, sanitizedName, done, writers,
                 argv, cfg, hist, before, total, msgs, batchIn, pending, fs,
                 fetchCount, calls, outcome,
                 errorLogged, destroyed>>

\* nothing is left to run: the process exits, no error having escaped
Exit ==
  /\ pc = "drain"
  /\ exitStatus' = 0
  /\ pc' = "exited"
  /\ UNCHANGED <<channelName, sanitizedName, done, writers,
                 argv, cfg, hist, before, total, msgs, batchIn, pending, fs,
                 fetchCount, calls, outcome,
                 errorLogged, destroyed>>

Next ==
  \/ ParseConfig
  \/ Login
  \/ FetchTextChannel
  \/ Fetch
  \/ WriteNext
  \/ CheckOldest
  \/ Catch
  \/ Destroy
  \/ Exit

Spec == Init /\ [][Next]_vars

\* every await of the run settles
FairSpec == Spec /\ WF_vars(Next)

\* -------------------------------------------------- the export run again
\* After a complete run the export is started once more on the same output
\* directory and the same channel, over the same window or over the window
\* moved one tick later.

RerunArgs(a) ==
  {b \in {a, [a EXCEPT !.start = a.start + 1, !.end = a.end + 1]} :
     b.start \in DateArgs /\ b.end \in DateArgs}

\* await main(), in a new process
Rerun ==
  /\ pc = "exited"
  /\ exitStatus = 0
  /\ outcome \in {"exhausted", "window"}
  /\ done = <<>>
  /\ done' = <<cfg>>
  /\ argv' \in RerunArgs(argv)
  /\ cfg' = NoCfg
  /\ pc' = "start"
  /\ before' = Undefined
  /\ total' = 0
  /\ msgs' = <<>>
  /\ batchIn' = <<>>
  /\ pending' = <<>>
  /\ fetchCount' = 0
  /\ calls' = <<>>
  /\ outcome' = "none"
  /\ errorLogged' = FALSE
  /\ destroyed' = FALSE
  /\ exitStatus' = NaD
  /\ UNCHANGED <<hist, fs, writers, channelName, sanitizedName>>

NextRerun == Next \/ Rerun

SpecRerun == Init /\ [][NextRerun]_vars

\* ------------------------------------------- the Partition Writer alone
\* writeJson and writeMessages applied once to inputs drawn from bounded
\* sets: any partition file found on disk, any record list, any batch.

Ids == 1 .. MaxTs

\* sequences over S of length at most MaxBatch
SeqsUpTo(S) == UNION {[1 .. n -> S] : n \in 0 .. MaxBatch}

\* the message lists a caller may pass: distinct messages in any order
MsgBatches ==
  {b \in UNION {[1 .. n -> Ids] : n \in 0 .. MaxTs} :
     \A i, j \in DOMAIN b : i # j => b[i] # b[j]}

RecordPool(c) == {ToRecord(m, c) : m \in Ids}

InitFiles(c) ==
  {Absent, Garbage, ObjectJson}
    \cup {JsonStringify(r) : r \in SeqsUpTo(RecordPool(c))}

InitWriter ==
  /\ hist = BuildHist([t \in Ticks |-> 1], 0)
  /\ argv \in [start : {0}, end : {MaxTs}, redactContent : BOOLEAN]
  /\ cfg = argv
  /\ pc = "idle"
  /\ \E p \in Dates, mk \in BOOLEAN : \E c \in InitFiles(cfg) :
       fs = [dirs  |-> IF mk \/ c # Absent THEN {p} ELSE {},
             files |-> [d \in Dates |-> IF d = p THEN c ELSE Absent]]
  /\ before = Undefined
  /\ total = 0
  /\ msgs = <<>>
  /\ batchIn = <<>>
  /\ pending = <<>>
  /\ fetchCount = 0
  /\ calls = <<>>
  /\ outcome = "none"
  /\ errorLogged = FALSE
  /\ destroyed = FALSE
  /\ exitStatus = NaD
  /\ writers = [w \in Runs |-> Outside]
  /\ done = <<>>
  /\ channelName = <<>>
  /\ sanitizedName = <<>>

\* a caller invokes writeJson(path, records)
CallWriteJson ==
  /\ pc = "idle"
  /\ \E path \in Dates, records \in SeqsUpTo(RecordPool(cfg)) :
       WriteJsonCall(path, records, "wjReturned", "wjThrew")
  /\ UNCHANGED <<channelName, sanitizedName, done, writers,
                 argv, cfg, hist, before, total, msgs, batchIn, pending,
                 fetchCount, outcome, errorLogged, destroyed, exitStatus>>

\* a caller invokes writeMessages(cfg, msgs, channelName)
CallWriteMessages ==
  /\ pc = "idle"
  /\ \E b \in MsgBatches :
       /\ batchIn' = b
       /\ pending' = ByDate(b)
  /\ calls' = <<>>
  /\ pc' = "write"
  /\ UNCHANGED <<channelName, sanitizedName, done, writers,
                 argv, cfg, hist, before, total, msgs, fs, fetchCount,
                 outcome, errorLogged, destroyed,
                 exitStatus>>

\* writeMessages returns to its caller
ReturnWriteMessages ==
  /\ pc = "write"
  /\ pending = <<>>
  /\ pc' = "returned"
  /\ UNCHANGED <<channelName, sanitizedName, done, writers,
                 argv, cfg, hist, before, total, msgs, batchIn, pending, fs,
                 fetchCount, calls, outcome,
                 errorLogged, destroyed, exitStatus>>

\* writeMessages throws to its caller
ThrowWriteMessages ==
  /\ pc = "catch"
  /\ pc' = "threw"
  /\ UNCHANGED <<channelName, sanitizedName, done, writers,
                 argv, cfg, hist, before, total, msgs, batchIn, pending, fs,
                 fetchCount, calls, outcome,
                 errorLogged, destroyed, exitStatus>>

NextWriter ==
  \/ CallWriteJson
  \/ CallWriteMessages
  \/ WriteNext
  \/ ReturnWriteMessages
  \/ ThrowWriteMessages

SpecWriter == InitWriter /\ [][NextWriter]_vars

\* ------------------------------------------------ the sanitizer alone
\* sanitizeChannelName applied to a name, and then to its own result.

Names == UNION {[1 .. n -> Alphabet] : n \in 0 .. MaxNameLen}

InitSanitize ==
  /\ channelName \in Names
  /\ sanitizedName = <<>>
  /\ pc = "name"
  /\ hist = <<>>
  /\ argv = NoCfg
  /\ cfg = NoCfg
  /\ fs = EmptyFs
  /\ before = Undefined
  /\ total = 0
  /\ msgs = <<>>
  /\ batchIn = <<>>
  /\ pending = <<>>
  /\ fetchCount = 0
  /\ calls = <<>>
  /\ outcome = "none"
  /\ errorLogged = FALSE
  /\ destroyed = FALSE
  /\ exitStatus = NaD
  /\ writers = [w \in Runs |-> Outside]
  /\ done = <<>>

\* const sanitizedName = sanitizeChannelName(channelName)
Sanitize ==
  /\ pc = "name"
  /\ sanitizedName' = SanitizeChannelName(channelName)
  /\ pc' = "sanitized"
  /\ UNCHANGED <<channelName, argv, cfg, hist, before, total, msgs, batchIn,
                 pending, fs, fetchCount, calls, outcome, errorLogged,
                 destroyed, exitStatus, writers, done>>

\* sanitizeChannelName(sanitizedName)
SanitizeAgain ==
  /\ pc = "sanitized"
  /\ channelName' = sanitizedName
  /\ sanitizedName' = SanitizeChannelName(sanitizedName)
  /\ pc' = "resanitized"
  /\ UNCHANGED <<argv, cfg, hist, before, total, msgs, batchIn,
                 pending, fs, fetchCount, calls, outcome, errorLogged,
                 destroyed, exitStatus, writers, done>>

NextSanitize == Sanitize \/ SanitizeAgain

SpecSanitize == InitSanitize /\ [][NextSanitize]_vars

\* ------------------------------------------- two runs on one directory
\* Each run is inside one writeJson call; the call's awaits let the other
\* run's steps fall between its read of the file and its overwrite.

\* the record lists writeMessages hands over: distinct messages, ascending
RaceBatches(c) ==
  {MapRecords(b, c) :
     b \in {b \in MsgBatches :
              /\ Len(b) <= MaxBatch
              /\ \A i \in 1 .. (Len(b) - 1) : b[i] < b[i + 1]}}

RaceFiles(c) ==
  {Absent, Garbage, ObjectJson}
    \cup {JsonStringify(<<r>>) : r \in RecordPool(c)}

InitRace ==
  /\ hist = BuildHist([t \in Ticks |-> 1], 0)
  /\ argv = [start |-> 0, end |-> MaxTs, redactContent |-> FALSE]
  /\ cfg = argv
  /\ pc = "racing"
  /\ \E p \in Dates : \E c \in RaceFiles(cfg) :
       fs = [dirs  |-> IF c # Absent THEN {p} ELSE {},
             files |-> [d \in Dates |-> IF d = p THEN c ELSE Absent]]
  /\ before = Undefined
  /\ total = 0
  /\ msgs = <<>>
  /\ batchIn = <<>>
  /\ pending = <<>>
  /\ fetchCount = 0
  /\ calls = <<>>
  /\ outcome = "none"
  /\ errorLogged = FALSE
  /\ destroyed = FALSE
  /\ exitStatus = NaD
  /\ writers = [w \in Runs |-> Outside]
  /\ done = <<>>
  /\ channelName = <<>>
  /\ sanitizedName = <<>>

\* run w enters writeJson: the guard, mkdir, and the read of the file
RaceRead(w) ==
  /\ pc = "racing"
  /\ writers[w].pc = "outside"
  /\ \E path \in Dates, records \in RaceBatches(cfg) :
       LET at(p, found) == [pc |-> p, path |-> path, records |-> records,
                            found |-> found, overwritten |-> FALSE]
       IN \/ \* if (!records.length) return
             /\ records = <<>>
             /\ fs' = fs
             /\ writers' = [writers EXCEPT ![w] = at("returned", Absent)]
          \/ \* mkdir throws
             /\ records # <<>>
             /\ fs' = fs
             /\ writers' = [writers EXCEPT ![w] = at("threw", Absent)]
          \/ \* await Bun.file(path).text()
             /\ records # <<>>
             /\ fs' = Mkdir(fs, path)
             /\ writers' = [writers EXCEPT ![w] = at("read", fs.files[path])]
  /\ UNCHANGED <<argv, cfg, hist, pc, before, total, msgs, batchIn, pending,
                 fetchCount, calls, outcome, errorLogged, destroyed,
                 exitStatus, done, channelName, sanitizedName>>

\* JSON.parse of the text that was read, the spread, Bun.write.  A run that
\* has read the same file and not yet written is marked as overwritten.
OverwriteWith(w, text) ==
  /\ pc = "racing"
  /\ writers[w].pc = "read"
  /\ LET me == writers[w]
         after(p, wrote) ==
           [v \in Runs |->
              IF v = w THEN [me EXCEPT !.pc = p]
              ELSE IF wrote /\ writers[v].pc = "read"
                            /\ writers[v].path = me.path
                   THEN [writers[v] EXCEPT !.overwritten = TRUE]
                   ELSE writers[v]]
     IN \/ \* [...existing, ...records] throws: existing is not iterable
           /\ SpreadThrows(text)
           /\ fs' = fs
           /\ writers' = after("threw", FALSE)
        \/ \* Bun.write throws, the file as it was
           /\ ~SpreadThrows(text)
           /\ fs' = fs
           /\ writers' = after("threw", FALSE)
        \/ \* Bun.write throws, the file cut short
           /\ ~SpreadThrows(text)
           /\ fs' = [fs EXCEPT !.files[me.path] = Garbage]
           /\ writers' = after("threw", TRUE)
        \/ \* writeJson returns: the file is what was read, then the records
           /\ ~SpreadThrows(text)
           /\ fs' = WriteJson([fs EXCEPT !.files[me.path] = text],
                              me.path, me.records)
           /\ writers' = after("returned", TRUE)
  /\ UNCHANGED <<argv, cfg, hist, pc, before, total, msgs, batchIn, pending,
                 fetchCount, calls, outcome, errorLogged, destroyed,
                 exitStatus, done, channelName, sanitizedName>>

\* mutant: the file is read again at the moment it is overwritten
RaceOverwriteFresh(w) == OverwriteWith(w, fs.files[writers[w].path])

\* run w leaves writeJson, with the text it read on entering
RaceOverwrite(w) == OverwriteWith(w, writers[w].found)

NextRace == \E w \in Runs : RaceRead(w) \/ RaceOverwrite(w)

SpecRace == InitRace /\ [][NextRace]_vars

\* ------------------------------------------------------------- claims

InWindow(t) == cfg.start <= t /\ t < cfg.end

ClaimMax(a, b) == IF a > b THEN a ELSE b

\* C1 (window invariant): every message about to be mapped by toRecord,
\* every record handed to writeJson and every record in a partition file of
\* the run has start <= created_at < end.
C1_WindowInvariant ==
  /\ \A i \in DOMAIN pending : \A k \in DOMAIN pending[i].batch :
        InWindow(Ts(pending[i].batch[k]))
  /\ \A i \in DOMAIN calls : \A k \in DOMAIN calls[i].records :
        InWindow(calls[i].records[k].created_at)
  /\ \A d \in Dates :
        LET recs == JsonParse(fs.files[d])
        IN \A k \in DOMAIN recs : InWindow(recs[k].created_at)

\* a page held a message created exactly at end and one created before
\* start, and its in-window messages were written
C1_Witness ==
  /\ pc = "write"
  /\ pending = <<>>
  /\ calls # <<>>
  /\ \E i \in DOMAIN msgs : Ts(msgs[i]) = cfg.end
  /\ \E i \in DOMAIN msgs : Ts(msgs[i]) < cfg.start

\* the pages of the history, newest first, whose oldest message is created
\* before start
CrossingPages ==
  {k \in 1 .. ((Len(hist) + Limit - 1) \div Limit) :
     hist[ClaimMax(1, Len(hist) - k * Limit + 1)] < cfg.start}

\* C5 (fetch count when the window is crossed): the traversal stops at the
\* first page whose oldest message is created before start: it ends "window
\* satisfied" with exactly as many fetches as that page's number, never
\* fetches past it, and ends "exhausted" only when no page crosses start.
C5_FetchCount ==
  /\ outcome = "window" =>
        CrossingPages # {} /\ fetchCount = Min(CrossingPages)
  /\ CrossingPages # {} => fetchCount <= Min(CrossingPages)
  /\ outcome = "exhausted" => CrossingPages = {}

\* the run is over, and start was crossed on the third page
C5_Witness ==
  /\ pc = "exited"
  /\ outcome = "window"
  /\ fetchCount = 3

\* the local calendar day an instant falls in, stated without localDate
CalendarDay(t) ==
  CHOOSE d \in 0 .. MaxTs :
    d * DayLen <= t + TzOffset /\ t + TzOffset < (d + 1) * DayLen

\* C2 (merge semantics): a writeJson call that returns, was given M >= 1
\* records and found a JSON array of N records leaves the file holding
\* exactly N+M records: the N existing ones in their order, then the M new
\* ones in theirs.  (Over a sequence of calls on one path this step yields
\* the concatenation of the batches in call order.)
C2_MergeSemantics ==
  [][Len(calls') = Len(calls) + 1 =>
       LET c == calls'[Len(calls')]
           old == fs.files[c.path]
           new == fs'.files[c.path]
       IN (c.ok /\ c.records # <<>> /\ old.kind = "array") =>
            /\ new.kind = "array"
            /\ Len(new.items) = Len(old.items) + Len(c.records)
            /\ JsonParse(new) = JsonParse(old) \o c.records]_vars

\* writeJson returned after merging two new records into a file of two
C2_Witness ==
  /\ pc = "wjReturned"
  /\ Len(calls[1].records) = 2
  /\ calls[1].records[1] # calls[1].records[2]
  /\ Len(fs.files[calls[1].path].items) = 4
  /\ JsonParse(fs.files[calls[1].path])[1] # calls[1].records[1]

\* C3 (empty write is a no-op): writeJson called with no records leaves
\* directories and files exactly as it found them, and writeMessages called
\* with no messages invokes no writeJson and changes nothing on its way to
\* returning.
C3_EmptyWriteNoOp ==
  /\ [][Len(calls') = Len(calls) + 1 /\ calls'[Len(calls')].records = <<>>
          => fs' = fs /\ calls'[Len(calls')].ok]_vars
  /\ [][(\/ pc = "idle" /\ pc' = "write" /\ batchIn' = <<>>
         \/ pc = "write" /\ batchIn = <<>>)
          => fs' = fs /\ calls' = <<>> /\ pc' \in {"write", "returned"}]_vars

\* writeJson returned from a call with no records on a file holding records
C3_Witness ==
  /\ pc = "wjReturned"
  /\ calls[1].records = <<>>
  /\ fs.files[calls[1].path].kind = "array"
  /\ fs.files[calls[1].path].items # <<>>

\* C4 (termination): once backfill starts fetching, the loop ends (empty
\* page, page older than start, or a thrown error) after finitely many
\* fetches; a run that ends without an error ends "exhausted" or "window";
\* and every iteration that goes on sets the cursor to an id that is
\* strictly smaller than the one before.
C4_Termination ==
  /\ (pc = "fetch") ~> (outcome \in {"exhausted", "window", "error"})
  /\ [](pc = "exited" /\ exitStatus = 0 /\ ~errorLogged
          => outcome \in {"exhausted", "window"})
  /\ [][pc = "write" /\ pc' = "fetch"
          => before' # Undefined /\ (before = Undefined \/ before' < before)]_vars

\* the loop ended on an empty page after moving the cursor at least twice
C4_Witness ==
  /\ pc = "exited"
  /\ outcome = "exhausted"
  /\ fetchCount >= 3
  /\ before # Undefined

\* C8 (partition grouping): when writeMessages returns, writeJson has been
\* invoked once per distinct local calendar date of the batch, each message
\* of the batch was passed in exactly one invocation, and that invocation's
\* path carries the local calendar date of the message's creation.
C8_PartitionGrouping ==
  pc = "returned" =>
    LET dates == {CalendarDay(Ts(batchIn[j])) : j \in DOMAIN batchIn}
        hits(m) == UNION {{<<i, k>> : k \in {k \in DOMAIN calls[i].records :
                                             calls[i].records[k].message_id = m}}
                          : i \in DOMAIN calls}
    IN /\ Len(calls) = Cardinality(dates)
       /\ {calls[i].path : i \in DOMAIN calls} = dates
       /\ \A i \in DOMAIN calls : calls[i].ok /\ calls[i].records # <<>>
       /\ \A j \in DOMAIN batchIn :
            /\ Cardinality(hits(batchIn[j])) = 1
            /\ \A h \in hits(batchIn[j]) :
                 calls[h[1]].path = CalendarDay(Ts(batchIn[j]))

\* writeMessages returned from an unsorted batch of three messages of two
\* dates, the dates interleaved
C8_Witness ==
  /\ pc = "returned"
  /\ Len(batchIn) = 3
  /\ CalendarDay(Ts(batchIn[1])) # CalendarDay(Ts(batchIn[2]))
  /\ CalendarDay(Ts(batchIn[1])) = CalendarDay(Ts(batchIn[3]))
  /\ Ts(batchIn[1]) > Ts(batchIn[3])

\* C9 (guaranteed teardown): once the ClientReady handler runs, the session
\* is eventually torn down by client.destroy() on every path, and after the
\* teardown no fetch is issued and nothing is written.
C9_Teardown ==
  /\ (pc = "ready") ~> destroyed
  /\ [][destroyed => /\ destroyed'
                     /\ fetchCount' = fetchCount
                     /\ fs' = fs
                     /\ calls' = calls]_vars

\* torn down after an error that followed a completed partition write
C9_Witness ==
  /\ destroyed
  /\ errorLogged
  /\ fetchCount >= 2
  /\ \E d \in Dates : fs.files[d].kind = "array"

\* C10 as stated: a run that raised an error in the handler logs it, tears
\* the session down and ends with a non-zero exit status.
C10_Original ==
  /\ outcome = "error" /\ pc \in {"finally", "drain", "exited"} => errorLogged
  /\ outcome = "error" /\ pc \in {"drain", "exited"} => destroyed
  /\ outcome = "error" /\ pc = "exited" => exitStatus # 0

\* C10 (amended): a run that raised an error in the handler logs it, then
\* tears the session down, and then ends with exit status 0: the handler's
\* catch block consumes the error.
C10_ExitStatus ==
  /\ outcome = "error" /\ pc \in {"finally", "drain", "exited"} => errorLogged
  /\ outcome = "error" /\ pc \in {"drain", "exited"} => destroyed
  /\ outcome = "error" /\ pc = "exited" => exitStatus = 0

\* the process ended after a fetch of a later page threw
C10_Witness ==
  /\ pc = "exited"
  /\ outcome = "error"
  /\ fetchCount >= 2
  /\ exitStatus = 0

\* the run went through the whole traversal and the process ended
CompleteRun == pc = "exited" /\ outcome \in {"exhausted", "window"}

\* the export window covers the whole history
WindowCoversHistory ==
  /\ hist # <<>>
  /\ cfg.start <= hist[1]
  /\ hist[Len(hist)] < cfg.end

\* the local calendar days the history spans
HistoryDays == {CalendarDay(hist[m]) : m \in DOMAIN hist}

\* the partition files present in the output directory
PartitionFiles == {d \in Dates : fs.files[d].kind # "absent"}

\* the file of day d holds exactly the messages of day d, each once
HoldsOwnDay(d) ==
  LET recs == JsonParse(fs.files[d])
  IN /\ \A k \in DOMAIN recs : CalendarDay(recs[k].created_at) = d
     /\ {recs[k].message_id : k \in DOMAIN recs}
          = {m \in DOMAIN hist : CalendarDay(hist[m]) = d}
     /\ Len(recs) = Cardinality({m \in DOMAIN hist : CalendarDay(hist[m]) = d})

\* the file of day d is sorted ascending by creation time
SortedAscending(d) ==
  LET recs == JsonParse(fs.files[d])
  IN \A k \in 1 .. (Len(recs) - 1) : recs[k].created_at <= recs[k + 1].created_at

\* C6 as stated: after a complete run into an empty output directory, the
\* window covering a history of several calendar days and more than one
\* page, each partition file holds exactly its own day's messages, sorted
\* ascending by creation time, and no message is in more than one file.
C6_FileOrdering ==
  (CompleteRun /\ WindowCoversHistory /\ Len(hist) > Limit
     /\ Cardinality(HistoryDays) >= 2)
  => \A d \in Dates : HoldsOwnDay(d) /\ SortedAscending(d)

\* C6, the part the code keeps: each file holds exactly its own day's
\* messages, each once (checked to tell the ordering apart from the rest)
C6_OwnDayOnly ==
  (CompleteRun /\ WindowCoversHistory /\ Len(hist) > Limit
     /\ Cardinality(HistoryDays) >= 2)
  => \A d \in Dates : HoldsOwnDay(d)

\* the scenario of C7: 150 messages of two calendar days, all in the window
Scenario150 ==
  /\ Len(hist) = Limit + HalfPage
  /\ Cardinality(HistoryDays) = 2
  /\ WindowCoversHistory

\* C7 as stated: the scenario's run issues exactly 2 fetch calls and
\* produces exactly 2 partition files, one per day.
C7_Original ==
  (CompleteRun /\ Scenario150)
  => fetchCount = 2 /\ PartitionFiles = HistoryDays
       /\ Cardinality(PartitionFiles) = 2

\* C7 (amended): the scenario's run issues exactly 3 fetch calls, the third
\* returning the empty page that ends the loop, and produces exactly 2
\* partition files, one per day.
C7_Scenario ==
  (CompleteRun /\ Scenario150)
  => fetchCount = 3 /\ outcome = "exhausted"
       /\ PartitionFiles = HistoryDays /\ Cardinality(PartitionFiles) = 2

\* the scenario's run is over
C7_Witness == CompleteRun /\ Scenario150

\* the writeJson call made by the step, if the step made one
CallMade == Len(calls') = Len(calls) + 1
TheCall == calls'[Len(calls')]

\* C11 as stated: a writeJson call with records, none of whose file-system
\* operations fails, on a file that is absent, unreadable or whose content
\* is not a JSON array returns without an error and leaves the file holding
\* exactly the new records.
C11_CorruptFile ==
  [][(CallMade /\ TheCall.records # <<>> /\ ~TheCall.io
        /\ fs.files[TheCall.path].kind # "array")
       => /\ TheCall.ok
          /\ fs'.files[TheCall.path] = JsonStringify(TheCall.records)]_vars

\* C11, the part the code keeps: the same for a file that is absent or that
\* JSON.parse rejects
C11_ParseFailure ==
  [][(CallMade /\ TheCall.records # <<>> /\ ~TheCall.io
        /\ fs.files[TheCall.path].kind \in {"absent", "invalid"})
       => /\ TheCall.ok
          /\ fs'.files[TheCall.path] = JsonStringify(TheCall.records)]_vars

\* the step raises the error that ends the traversal
ErrorRaised == outcome # "error" /\ outcome' = "error"

\* once the error is raised the run fetches nothing, writes nothing and
\* never goes back into the page loop
AbortedForGood ==
  outcome = "error" =>
    /\ fetchCount' = fetchCount
    /\ calls' = calls
    /\ fs' = fs
    /\ pc' \notin {"fetch", "write"}
    /\ outcome' = "error"

\* C12 as stated: when a page fetch, a record mapping or a partition write
\* raises an error, every partition file written so far keeps its content,
\* and from then on the run issues no fetch (so no retry of the failed
\* page) and makes no partition write.
C12_FailureAborts ==
  /\ [][AbortedForGood]_vars
  /\ [][ErrorRaised =>
          \A d \in Dates : fs.files[d].kind = "array"
                              => fs'.files[d] = fs.files[d]]_vars

\* C12, the part the code keeps: the same, but for the file that the failed
\* writeJson call was overwriting
C12_AbortKept ==
  /\ [][AbortedForGood]_vars
  /\ [][ErrorRaised =>
          \A d \in Dates : (fs.files[d].kind = "array"
                               /\ ~(CallMade /\ TheCall.path = d))
                              => fs'.files[d] = fs.files[d]]_vars

\* run w's writeJson call was given records and returned
Returned(w) == writers[w].pc = "returned" /\ writers[w].records # <<>>

\* the records a partition file holds
RecordsOf(f) == {JsonParse(f)[i] : i \in DOMAIN f.items}

\* C13 (lost writes under concurrent runs): a writeJson call that returns
\* with no other run's overwrite between its read and its own overwrite
\* (a single writer always) leaves the file holding all it held, then the
\* new records; a call whose read was overtaken by another run's overwrite
\* writes what it had read, then its records, so that after both calls have
\* returned the file is the last writer's and the other run's write is gone.
C13_LostWrites ==
  /\ [][\A w \in Runs :
          (writers[w].pc = "read" /\ writers'[w].pc = "returned"
             /\ ~writers[w].overwritten)
          => JsonParse(fs'.files[writers[w].path])
               = ReadExisting(fs.files[writers[w].path]) \o writers[w].records]_vars
  /\ [](\A w, v \in Runs :
          (w # v /\ Returned(w) /\ Returned(v)
             /\ writers[w].path = writers[v].path /\ writers[w].overwritten)
          => JsonParse(fs.files[writers[w].path])
               = ReadExisting(writers[w].found) \o writers[w].records)

\* both runs' calls returned, and the file lacks a record one of them wrote
C13_Witness ==
  \E w, v \in Runs :
    /\ w # v /\ Returned(w) /\ Returned(v)
    /\ writers[w].path = writers[v].path
    /\ writers[w].overwritten
    /\ \E k \in DOMAIN writers[v].records :
         writers[v].records[k] \notin RecordsOf(fs.files[writers[w].path])

\* the second run is over, the first having been complete as well
TwoCompleteRuns == done # <<>> /\ CompleteRun

\* the messages of local calendar day d inside the window of c
DayMsgs(d, c) ==
  {m \in DOMAIN hist :
     CalendarDay(hist[m]) = d /\ c.start <= hist[m] /\ hist[m] < c.end}

\* the message ids in the file of day d, from position lo to position hi
IdsAt(d, lo, hi) == {fs.files[d].items[k][1] : k \in lo .. hi}

\* C14 (re-run appends duplicates): after a complete run and a second
\* complete run into the same directory, each partition file holds the
\* in-window messages of its day of the first run, each once, and behind
\* them those of the second run, each once; nothing is deduplicated.  When
\* the two windows are the same every record is in its file exactly twice.
C14_RerunDuplicates ==
  TwoCompleteRuns =>
    \A d \in Dates :
      LET first == DayMsgs(d, done[1])
          second == DayMsgs(d, cfg)
          n1 == Cardinality(first)
          n2 == Cardinality(second)
      IN /\ Len(fs.files[d].items) = n1 + n2
         /\ IdsAt(d, 1, n1) = first
         /\ IdsAt(d, n1 + 1, n1 + n2) = second
         /\ cfg = done[1] =>
              \A k \in 1 .. n1 :
                fs.files[d].items[k] = fs.files[d].items[n1 + k]

\* two complete runs over the same window, a day of more than one page
C14_Witness ==
  /\ TwoCompleteRuns
  /\ cfg = done[1]
  /\ \E d \in Dates : Cardinality(DayMsgs(d, cfg)) > Limit
  /\ Cardinality({d \in Dates : DayMsgs(d, cfg) # {}}) >= 2

\* the configuration c with the redaction flag set to b
WithFlag(c, b) == [c EXCEPT !.redactContent = b]

\* C15 (redaction invariant): for every message, toRecord under the run's
\* configuration with the flag set and with the flag cleared yields records
\* with the same fields, equal in every field but content; content is null
\* with the flag set and the message's text with it cleared; and every
\* record handed to writeJson has a null content exactly when the run's
\* flag is set.
C15_Redaction ==
  /\ \A m \in DOMAIN hist :
       LET on == ToRecord(m, WithFlag(cfg, TRUE))
           off == ToRecord(m, WithFlag(cfg, FALSE))
       IN /\ DOMAIN on = DOMAIN off
          /\ \A f \in DOMAIN on \ {"content"} : on[f] = off[f]
          /\ on.content = Null
          /\ off.content = Text(m)
          /\ off.content # Null
  /\ \A i \in DOMAIN calls : \A k \in DOMAIN calls[i].records :
       LET r == calls[i].records[k]
       IN /\ r.content = Null <=> cfg.redactContent
          /\ r = ToRecord(r.message_id, cfg)
          /\ r.created_at = hist[r.message_id]

\* writeMessages returned from a batch mapped with the flag set
C15_Witness ==
  /\ pc = "returned"
  /\ cfg.redactContent
  /\ Len(batchIn) >= 2
  /\ \A i \in DOMAIN calls : \A k \in DOMAIN calls[i].records :
       calls[i].records[k].content = Null

\* C16 (idempotent sanitization): the result of sanitizeChannelName holds
\* no character of [<>:"/\|?*], no white space and no upper-case letter and
\* does not begin with a dot; and sanitizeChannelName applied to its own
\* result returns it unchanged.
C16_Sanitization ==
  /\ pc \in {"sanitized", "resanitized"} =>
       /\ \A i \in DOMAIN sanitizedName :
            sanitizedName[i] \notin Forbidden \cup Whitespace \cup {"A"}
       /\ sanitizedName # <<>> => sanitizedName[1] # "."
  /\ pc = "resanitized" => sanitizedName = channelName

\* a result made of a hyphen, a dot and a letter, sanitized once more
C16_Witness ==
  /\ pc = "resanitized"
  /\ Len(sanitizedName) = MaxNameLen - 1
  /\ sanitizedName[1] = "-"
  /\ \E i \in DOMAIN sanitizedName : sanitizedName[i] = "."
  /\ \E i \in DOMAIN sanitizedName : sanitizedName[i] = "a"

\* the client is being started, or the handler and the traversal are running
ClientStarted == pc \in {"login", "ready", "fetch", "write", "catch", "finally"}

\* both instants of the configuration are well-formed
WellFormed(c) == ~ParseDateThrows(c.start) /\ ~ParseDateThrows(c.end)

\* C17 as stated: the configuration with which the client is started and the
\* traversal is run has well-formed instants and start < end, and a run
\* whose command line has start not earlier than end issues no fetch.
C17_ConfigInvariant ==
  /\ ClientStarted => WellFormed(cfg) /\ cfg.start < cfg.end
  /\ (WellFormed(argv) /\ argv.start >= argv.end) => fetchCount = 0

\* C17, the part the code keeps: the client is only started with
\* well-formed instants, taken from the command line
C17_WellFormed ==
  ClientStarted =>
    WellFormed(cfg) /\ cfg.start = argv.start /\ cfg.end = argv.end

\* the message ids that the file of day d holds
FileIds(d) == IdsAt(d, 1, Len(fs.files[d].items))

\* C18 (completeness and exactly-once within one run): in a run into an
\* empty output directory no message is ever in the partition files twice
\* and none outside the window is in them; and when the run has ended
\* normally every message of the history with start <= created_at < end is
\* in the files (in the file of its day), exactly once.
C18_ExactlyOnce ==
  /\ \A d \in Dates :
       /\ Cardinality(FileIds(d)) = Len(fs.files[d].items)
       /\ FileIds(d) \subseteq DayMsgs(d, cfg)
  /\ CompleteRun => \A d \in Dates : FileIds(d) = DayMsgs(d, cfg)

\* a run ended on a page older than start, after more than one page of
\* in-window messages, with messages of one instant on both sides of a
\* page boundary
C18_Witness ==
  /\ CompleteRun
  /\ outcome = "window"
  /\ fetchCount >= 2
  /\ \E d \in Dates : Cardinality(DayMsgs(d, cfg)) > Limit
  /\ Len(hist) > Limit + 1
  /\ hist[Len(hist) - Limit] = hist[Len(hist) - Limit + 1]
  /\ InWindow(hist[Len(hist) - Limit])

\* writeMessages is running or has finished
InWriteMessages == pc \in {"write", "returned", "catch", "threw"}

\* C19 (per-write ordering): every record list that writeMessages hands to
\* writeJson holds records of one local calendar date, the date of the
\* path, and is sorted ascending by creation time, whatever the order of
\* the messages passed in.
C19_PerWriteOrdering ==
  InWriteMessages =>
    \A i \in DOMAIN calls :
      LET recs == calls[i].records
      IN /\ \A k \in DOMAIN recs :
              CalendarDay(recs[k].created_at) = calls[i].path
         /\ \A k \in 1 .. (Len(recs) - 1) :
              recs[k].created_at <= recs[k + 1].created_at

\* writeMessages returned from three messages passed newest first, two of
\* them of one date
C19_Witness ==
  /\ pc = "returned"
  /\ Len(batchIn) = MaxTs
  /\ \A j \in 1 .. (Len(batchIn) - 1) : Ts(batchIn[j]) > Ts(batchIn[j + 1])
  /\ \E i \in DOMAIN calls :
       /\ Len(calls[i].records) >= 2
       /\ calls[i].records[1].created_at < calls[i].records[2].created_at

====
